---- MODULE Spec2Model ----
(***************************************************************************)
(* Model of src/src/monitor.js: the Monitor class of github-leak-scanner.  *)
(*                                                                         *)
(* A Monitor owns isRunning, lastCheck, findings and intervalId.  start(), *)
(* stop() and the setInterval callback are the entry points; check() is an *)
(* async function, so one execution of check() (a "tick") is a process     *)
(* that advances from one await to the next.  Every await on a network     *)
(* call is a point where another callback (a timer expiry, a stop(), the   *)
(* continuation of another tick) may run; the code between two awaits is   *)
(* one atomic step.                                                        *)
(*                                                                         *)
(* Strings are sequences of one-character strings, so that                 *)
(* String.prototype.includes is a real substring test.                     *)
(***************************************************************************)
EXTENDS Integers, Sequences, FiniteSets, TLC

\* ------------------------------------------------------------------------
\* Bounds of the model
\* ------------------------------------------------------------------------

\* number of start() calls explored
MaxStarts == 2

\* number of executions of check() explored (begun by start() or by a timer)
MaxTicks == 3

\* number of result items (search items, gists) the platform serves in a run
MaxServed == 2

\* ------------------------------------------------------------------------
\* Values
\* ------------------------------------------------------------------------

\* JavaScript undefined / null, where a string is expected
Undefined == "undefined"

\* a rejected promise of this.github.get
Fail == [ok |-> FALSE]

\* the watched domains given to the constructor: "ac" and "b"
Domains == << <<"a", "c">>, <<"b">> >>

\* this.once is read as an option of the constructor
OnceOptions == BOOLEAN

\* a.includes(b)
Contains(s, sub) ==
  \E k \in 1..(Len(s) - Len(sub) + 1) : SubSeq(s, k, k + Len(sub) - 1) = sub

\* the credential kinds detectCredentials knows, in its reporting order
CredentialKinds == <<"password", "api_key">>

\* the signature of a credential kind: "p=" and "k="
Signature(kind) == IF kind = "password" THEN <<"p", "=">> ELSE <<"k", "=">>

\* scanner.scanForDomains: the watched domains that occur in content
scanForDomains(content, domains) ==
  SelectSeq(domains, LAMBDA d : Contains(content, d))

\* scanner.detectCredentials: the kinds whose signature occurs in content
detectCredentials(content) ==
  SelectSeq(CredentialKinds, LAMBDA kind : Contains(content, Signature(kind)))

\* content.substring(0, 200)
SnippetLength == 200

Min(a, b) == IF a < b THEN a ELSE b

Snippet(content) == SubSeq(content, 1, Min(Len(content), SnippetLength))

\* ------------------------------------------------------------------------
\* The hosting platform: what the endpoints can answer
\* ------------------------------------------------------------------------

\* file bodies the platform serves, by content locator (item.url):
\* "ac p=" names a watched domain and holds a password, "p=" only holds a password
Blobs ==
  [locator \in {"u1", "u2"} |->
     IF locator = "u1" THEN <<"a", "c", " ", "p", "=">> ELSE <<"p", "=">>]

\* items of /search/code answers: r1 names a domain in its body, r2 only in its
\* display URL, and the last item has no repository object
RawCodePool ==
  { [repo |-> "r1", path |-> "f1", html_url |-> <<"h", "/", "x">>, url |-> "u1"],
    [repo |-> "r2", path |-> "f2", html_url |-> <<"h", "/", "a", "c">>, url |-> "u2"],
    [repo |-> Undefined, path |-> "f3", html_url |-> <<"h", "/", "x">>, url |-> "u2"] }

\* gists of /gists/public answers; files is Object.entries(gist.files).  g1 has a
\* watched domain in its URL, a file with domain and key and a file with only a
\* password; g2 has a file with only a password and a file with only a domain;
\* g3 has no files object
RawGistPool ==
  { [id |-> "g1", html_url |-> <<"g", "/", "b">>,
     hasFiles |-> TRUE,
     files |-> << [filename |-> "n1", content |-> <<"b", " ", "k", "=">>],
                  [filename |-> "n2", content |-> <<"p", "=">>] >>],
    [id |-> "g2", html_url |-> <<"g", "/", "2">>,
     hasFiles |-> TRUE,
     files |-> << [filename |-> "n3", content |-> <<"p", "=">>],
                  [filename |-> "n4", content |-> <<"a", "c">>] >>],
    [id |-> "g3", html_url |-> <<"g", "/", "3">>, hasFiles |-> FALSE, files |-> <<>>] }

\* sequences over S of length at most n
SeqsUpTo(S, n) == UNION { [1..k -> S] : k \in 0..n }

\* the answers of one /search/code request when the platform may still serve n items
SearchResponses(n) ==
  {Fail} \cup { [ok |-> TRUE, items |-> s] : s \in SeqsUpTo(RawCodePool, n) }

\* the answers of one /gists/public request when the platform may still serve n gists
GistResponses(n) ==
  {Fail} \cup { [ok |-> TRUE, data |-> s] : s \in SeqsUpTo(RawGistPool, n) }

\* the answer of the content fetch of analyzeContent: response.data.content
FetchResponse(store, locator, ok) ==
  IF ok THEN [ok |-> TRUE, content |-> store[locator]] ELSE Fail

\* the number of items an answer holds
Served(resp) ==
  IF ~resp.ok THEN 0
  ELSE IF "items" \in DOMAIN resp THEN Len(resp.items) ELSE Len(resp.data)

\* ------------------------------------------------------------------------
\* scanCodeSearch, scanGists, analyzeContent: the code between two awaits
\* ------------------------------------------------------------------------

\* per_page of every request
PerPage == 30

\* the search terms of the two requests of a domain
PasswordTerm == <<" ", "p", "a", "s", "s", "w", "o", "r", "d">>

ApiKeyTerm == <<" ", "a", "p", "i", "_", "k", "e", "y">>

\* the '<domain> password' request
PasswordQuery(domain) ==
  [path |-> "/search/code", q |-> domain \o PasswordTerm, per_page |-> PerPage]

\* the second request of a domain, with the search term of the first
ApiKeyQuerySameTerm(domain) ==
  [path |-> "/search/code", q |-> domain \o PasswordTerm, per_page |-> PerPage]

\* the '<domain> api_key' request
ApiKeyQuery(domain) ==
  [path |-> "/search/code", q |-> domain \o ApiKeyTerm, per_page |-> PerPage]

\* the request of scanGists
GistListing == [path |-> "/gists/public", q |-> <<>>, per_page |-> PerPage]

\* the object scanCodeSearch pushes for one search item
CodeItem(raw) ==
  [type |-> "code", repository |-> raw.repo, path |-> raw.path,
   url |-> raw.html_url, contentUrl |-> raw.url]

\* the loop over the items that skips an item it has already pushed
RECURSIVE PushCodeItemsDistinct(_, _)
PushCodeItemsDistinct(results, items) ==
  IF items = <<>> THEN [results |-> results, threw |-> FALSE]
  ELSE IF Head(items).repo = Undefined THEN [results |-> results, threw |-> TRUE]
  ELSE IF \E k \in 1..Len(results) : results[k] = CodeItem(Head(items))
  THEN PushCodeItemsDistinct(results, Tail(items))
  ELSE PushCodeItemsDistinct(Append(results, CodeItem(Head(items))), Tail(items))

\* the loop over response.data.items: item.repository.full_name throws on an item
\* without repository, and the items pushed before it stay in results
RECURSIVE PushCodeItems(_, _)
PushCodeItems(results, items) ==
  IF items = <<>> THEN [results |-> results, threw |-> FALSE]
  ELSE IF Head(items).repo = Undefined THEN [results |-> results, threw |-> TRUE]
  ELSE PushCodeItems(Append(results, CodeItem(Head(items))), Tail(items))

\* one search request of scanCodeSearch and the loop after it
SearchOutcome(results, resp) ==
  IF ~resp.ok THEN [results |-> results, threw |-> TRUE]
  ELSE PushCodeItems(results, resp.items)

\* the objects scanGists pushes for the files of one gist
GistItems(gist) ==
  [k \in 1..Len(gist.files) |->
     [type |-> "gist", id |-> gist.id, filename |-> gist.files[k].filename,
      url |-> gist.html_url, content |-> gist.files[k].content]]

\* the loop over response.data: Object.entries(gist.files) throws on a gist
\* without files, and the items pushed before it stay in results
RECURSIVE ExpandGists(_, _)
ExpandGists(results, data) ==
  IF data = <<>> THEN [results |-> results, threw |-> FALSE]
  ELSE IF ~Head(data).hasFiles THEN [results |-> results, threw |-> TRUE]
  ELSE ExpandGists(results \o GistItems(Head(data)), Tail(data))

\* scanGists whose catch reports the error as an item
scanGistsErrorItem(resp) ==
  IF ~resp.ok
  THEN << [type |-> "gist", id |-> Undefined, filename |-> Undefined,
           url |-> <<>>, content |-> <<>>] >>
  ELSE ExpandGists(<<>>, resp.data).results

\* scanGists: the request, the expansion, and the catch that returns results
scanGists(resp) ==
  IF ~resp.ok THEN <<>>
  ELSE ExpandGists(<<>>, resp.data).results

\* the content analyzeContent works on: let content = '' stays when the fetch throws
ResolveContent(item, fetch) ==
  IF item.type = "code"
  THEN IF ~fetch.ok THEN [content |-> <<>>, threw |-> TRUE]
       ELSE [content |-> fetch.content, threw |-> FALSE]
  ELSE [content |-> item.content, threw |-> FALSE]

\* ('' and undefined are both falsy: a missing display URL is the empty string)
\* item.url && this.domains.some(d => item.url.includes(d))
UrlMatches(item, domains) ==
  /\ item.url # <<>>
  /\ \E k \in 1..Len(domains) : Contains(item.url, domains[k])

\* the object analyzeContent pushes
Finding(item, content, domainMatches, credentials) ==
  [type |-> item.type,
   source |-> IF item.type = "code" THEN item.repository ELSE item.id,
   path |-> IF item.type = "code" THEN item.path ELSE item.filename,
   url |-> item.url,
   matchedDomains |-> domainMatches,
   credentials |-> credentials,
   snippet |-> Snippet(content)]

\* analyzeContent with the credential test left out
analyzeContentDomainOnly(item, fetch, domains) ==
  LET r == ResolveContent(item, fetch)
      domainMatches == scanForDomains(r.content, domains)
      credentials == detectCredentials(r.content)
  IN IF r.threw THEN <<>>
     ELSE IF Len(domainMatches) > 0 \/ UrlMatches(item, domains)
     THEN << Finding(item, r.content, domainMatches, credentials) >>
     ELSE <<>>

\* analyzeContent: the findings of one item (none when the fetch throws)
analyzeContent(item, fetch, domains) ==
  LET r == ResolveContent(item, fetch)
      domainMatches == scanForDomains(r.content, domains)
      credentials == detectCredentials(r.content)
  IN IF r.threw THEN <<>>
     ELSE IF Len(domainMatches) > 0 \/ UrlMatches(item, domains)
     THEN IF Len(credentials) > 0
          THEN << Finding(item, r.content, domainMatches, credentials) >>
          ELSE <<>>
     ELSE <<>>

\* ------------------------------------------------------------------------
\* State
\* ------------------------------------------------------------------------

VARIABLES
  domains,     \* this.domains
  blobs,       \* the file bodies the platform serves, by content locator
  once,        \* this.once
  isRunning,   \* this.isRunning
  lastCheck,   \* this.lastCheck: 0 is null, n is the time the n-th check() began
  findings,    \* this.findings, each with the check() that pushed it
  intervalId,  \* this.intervalId: 0 is undefined
  timers,      \* the armed setInterval timers
  timerCount,  \* the number of setInterval calls so far (the next timer id)
  ticks,       \* the executions of check(), in the order they began
  alerts,      \* the findings alert() has printed, in order
  startCalls,  \* the number of start() calls so far
  stopped,     \* stop() has been called
  served,      \* the number of items the platform has served so far
  tracing,     \* the requests of the connectors are being recorded
  trace        \* the answered requests of the connectors, in the order of the answers

vars == << domains, blobs, once, isRunning, lastCheck, findings, intervalId, timers, timerCount,
           ticks, alerts, startCalls, stopped, served, tracing, trace >>

\* the constructor
Init ==
  /\ domains = Domains
  /\ blobs = Blobs
  /\ once \in OnceOptions
  /\ isRunning = FALSE
  /\ lastCheck = 0
  /\ findings = <<>>
  /\ intervalId = 0
  /\ timers = {}
  /\ timerCount = 0
  /\ ticks = <<>>
  /\ alerts = <<>>
  /\ startCalls = 0
  /\ stopped = FALSE
  /\ served = 0
  /\ tracing = FALSE
  /\ trace = <<>>

\* ------------------------------------------------------------------------
\* check(): one execution is a record of ticks
\* ------------------------------------------------------------------------

\* the locals of a check() that has just begun, awaiting its first search request
\*   origin       "start" when start() awaits it, "timer" for a timer callback
\*   pc           the await it is suspended at, or "done" / "rejected"
\*   d            the index of the domain scanCodeSearch is at
\*   i            the index of the item the analysis loop is at
\*   codeResults  results of scanCodeSearch, gists   results of scanGists
\*   resumed      start() has run its code after await this.check()
\*   codeOk       some search request was answered
\*   gistOk       "ok" / "fail" once the gist listing was answered or failed
\*   contents     the content each analysed code item resolved to
NewTick(origin, watched) ==
  [origin |-> origin,
   pc |-> IF Len(watched) > 0 THEN "password" ELSE "gists",
   d |-> 1, i |-> 1,
   codeResults |-> <<>>, gists |-> <<>>,
   totalScanned |-> 0, threatsFound |-> 0,
   resumed |-> (origin = "timer"),
   codeOk |-> FALSE, gistOk |-> "pending", contents |-> <<>>]

\* a check() is in progress
InProgress(t) == ticks[t].pc \notin {"done", "rejected"}

\* the catch of check() around a stage: log, and go on after the try statement
CheckCatch(stage) == IF stage = "code" THEN "gists" ELSE "done"

\* check() that returns early when the code search found nothing
AfterCodeSearchEarlyReturn(tick, out) ==
  IF out.threw
  THEN [tick EXCEPT !.codeResults = out.results, !.pc = CheckCatch("code")]
  ELSE [tick EXCEPT !.codeResults = out.results,
                    !.totalScanned = @ + Len(out.results),
                    !.i = 1,
                    !.pc = IF Len(out.results) > 0 THEN "code" ELSE "done"]

\* check() once scanCodeSearch has returned: count the results, then either the
\* first analyzeContent fetch or, with no results, the request of scanGists
AfterCodeSearch(tick, out) ==
  IF out.threw
  THEN [tick EXCEPT !.codeResults = out.results, !.pc = CheckCatch("code")]
  ELSE [tick EXCEPT !.codeResults = out.results,
                    !.totalScanned = @ + Len(out.results),
                    !.i = 1,
                    !.pc = IF Len(out.results) > 0 THEN "code" ELSE "gists"]

\* the end of the loop body of scanCodeSearch: the password request of the next
\* domain, or return results
NextDomain(tick, results, watched) ==
  IF tick.d < Len(watched)
  THEN [tick EXCEPT !.codeResults = results, !.d = @ + 1, !.pc = "password"]
  ELSE AfterCodeSearch(tick, [results |-> results, threw |-> FALSE])

\* scanCodeSearch with one try around the loop over the domains
SearchCatchAbort(tick, results, watched) ==
  AfterCodeSearch(tick, [results |-> results, threw |-> FALSE])

\* the catch of scanCodeSearch around the two requests of a domain: the error is
\* logged when verbose, and the loop goes on with the next domain
SearchCatch(tick, results, watched) == NextDomain(tick, results, watched)

\* the answered request the connectors record while tracing
Record(t, request, resp) ==
  IF tracing THEN Append(trace, [tick |-> t, request |-> request, resp |-> resp])
  ELSE trace

\* the findings with the check() that pushed them
Tagged(fs, t) == [k \in 1..Len(fs) |-> [tick |-> t, finding |-> fs[k]]]

\* this.findings.unshift(...findings)
UnshiftFindings(list, fs, t) == Tagged(fs, t) \o list

\* this.findings.push(...findings)
PushFindings(list, fs, t) == list \o Tagged(fs, t)

\* the check() begins: line 54 to the first await
BeginCheck(origin) ==
  /\ Len(ticks) < MaxTicks
  /\ lastCheck' = Len(ticks) + 1
  /\ ticks' = Append(ticks, NewTick(origin, domains))

\* the answer of the '<domain> password' request arrives
SearchPassword(t, resp) ==
  /\ ticks[t].pc = "password"
  /\ LET tick == ticks[t]
         out == SearchOutcome(tick.codeResults, resp)
         seen == [tick EXCEPT !.codeOk = @ \/ resp.ok]
     IN ticks' = [ticks EXCEPT ![t] =
          IF out.threw THEN SearchCatch(seen, out.results, domains)
          ELSE [seen EXCEPT !.codeResults = out.results, !.pc = "api_key"]]
  /\ served' = served + Served(resp)
  /\ trace' = Record(t, PasswordQuery(domains[ticks[t].d]), resp)
  /\ UNCHANGED << domains, blobs, tracing, once, isRunning, lastCheck, findings, intervalId, timers,
                  timerCount, alerts, startCalls, stopped >>

\* the answer of the '<domain> api_key' request arrives
SearchApiKey(t, resp) ==
  /\ ticks[t].pc = "api_key"
  /\ LET tick == ticks[t]
         out == SearchOutcome(tick.codeResults, resp)
         seen == [tick EXCEPT !.codeOk = @ \/ resp.ok]
     IN ticks' = [ticks EXCEPT ![t] =
          IF out.threw THEN SearchCatch(seen, out.results, domains)
          ELSE NextDomain(seen, out.results, domains)]
  /\ served' = served + Served(resp)
  /\ trace' = Record(t, ApiKeyQuery(domains[ticks[t].d]), resp)
  /\ UNCHANGED << domains, blobs, tracing, once, isRunning, lastCheck, findings, intervalId, timers,
                  timerCount, alerts, startCalls, stopped >>

\* the loop body of check() that reports the length of the accumulated list
AfterAnalysisCountsAll(tick, results, fs, nextStage) ==
  [tick EXCEPT !.threatsFound = Len(findings) + Len(fs),
               !.i = @ + 1,
               !.pc = IF tick.i < Len(results) THEN @ ELSE nextStage]

\* the loop body of check() after analyzeContent has returned fs for item i of
\* results: push, alert, and go on with the next item or the next stage
AfterAnalysis(tick, results, fs, nextStage) ==
  [tick EXCEPT !.threatsFound = @ + Len(fs),
               !.i = @ + 1,
               !.pc = IF tick.i < Len(results) THEN @ ELSE nextStage]

\* alert called with the accumulated list: this.alert(this.findings)
alertAccumulated(printed, fs) ==
  printed \o [k \in 1..Len(findings) |-> findings[k].finding] \o fs

\* alert(findings): one block of console output per finding, in order
alert(printed, fs) == printed \o fs

\* analyzeContent without its try statement: a failing fetch rejects
AnalysisRejectsOnFetchError(item, fetch) == item.type = "code" /\ ~fetch.ok

\* the promise of analyzeContent rejects: never, the try statement spans the body
\* and the catch swallows the error
AnalysisRejects(item, fetch) == FALSE

\* the content fetch of a code item is answered: analyzeContent returns
AnalyzeCode(t, ok) ==
  /\ ticks[t].pc = "code"
  /\ LET tick == ticks[t]
         item == tick.codeResults[tick.i]
         fetch == FetchResponse(blobs, item.contentUrl, ok)
         fs == analyzeContent(item, fetch, domains)
         seen == [tick EXCEPT !.contents = Append(@, ResolveContent(item, fetch).content)]
     IN IF AnalysisRejects(item, fetch)
        THEN /\ ticks' = [ticks EXCEPT ![t].pc = CheckCatch("code")]
             /\ UNCHANGED << findings, alerts >>
        ELSE /\ findings' = PushFindings(findings, fs, t)
             /\ alerts' = alert(alerts, fs)
             /\ ticks' = [ticks EXCEPT ![t] =
                            AfterAnalysis(seen, tick.codeResults, fs, "gists")]
  /\ UNCHANGED << domains, blobs, tracing, trace, once, isRunning, lastCheck, intervalId, timers, timerCount,
                  startCalls, stopped, served >>

\* scanGists that empties the accumulated findings before it returns
ListGistsClearsFindings(t, resp) ==
  /\ ticks[t].pc = "gists"
  /\ LET tick == ticks[t]
         results == scanGists(resp)
     IN ticks' = [ticks EXCEPT ![t] =
          [tick EXCEPT !.gists = results,
                       !.gistOk = IF resp.ok THEN "ok" ELSE "fail",
                       !.totalScanned = @ + Len(results),
                       !.i = 1,
                       !.pc = IF Len(results) > 0 THEN "gist" ELSE "done"]]
  /\ served' = served + Served(resp)
  /\ trace' = Record(t, GistListing, resp)
  /\ findings' = <<>>
  /\ UNCHANGED << domains, blobs, tracing, once, isRunning, lastCheck, intervalId, timers,
                  timerCount, alerts, startCalls, stopped >>

\* the answer of the /gists/public request arrives: scanGists returns
ListGists(t, resp) ==
  /\ ticks[t].pc = "gists"
  /\ LET tick == ticks[t]
         results == scanGists(resp)
     IN ticks' = [ticks EXCEPT ![t] =
          [tick EXCEPT !.gists = results,
                       !.gistOk = IF resp.ok THEN "ok" ELSE "fail",
                       !.totalScanned = @ + Len(results),
                       !.i = 1,
                       !.pc = IF Len(results) > 0 THEN "gist" ELSE "done"]]
  /\ served' = served + Served(resp)
  /\ trace' = Record(t, GistListing, resp)
  /\ UNCHANGED << domains, blobs, tracing, once, isRunning, lastCheck, findings, intervalId, timers,
                  timerCount, alerts, startCalls, stopped >>

\* analyzeContent returns for a gist item (its content is inline)
AnalyzeGist(t) ==
  /\ ticks[t].pc = "gist"
  /\ LET tick == ticks[t]
         item == tick.gists[tick.i]
         fs == analyzeContent(item, Fail, domains)
     IN IF AnalysisRejects(item, Fail)
        THEN /\ ticks' = [ticks EXCEPT ![t].pc = CheckCatch("gists")]
             /\ UNCHANGED << findings, alerts >>
        ELSE /\ findings' = PushFindings(findings, fs, t)
             /\ alerts' = alert(alerts, fs)
             /\ ticks' = [ticks EXCEPT ![t] = AfterAnalysis(tick, tick.gists, fs, "done")]
  /\ UNCHANGED << domains, blobs, tracing, trace, once, isRunning, lastCheck, intervalId, timers, timerCount,
                  startCalls, stopped, served >>

\* ------------------------------------------------------------------------
\* start(), stop() and the timer
\* ------------------------------------------------------------------------

\* start() that arms the timer and leaves the first check() to its first expiry
StartDeferred ==
  /\ startCalls < MaxStarts
  /\ startCalls' = startCalls + 1
  /\ isRunning' = TRUE
  /\ timerCount' = timerCount + 1
  /\ intervalId' = timerCount + 1
  /\ timers' = timers \cup {timerCount + 1}
  /\ UNCHANGED << domains, blobs, tracing, trace, once, lastCheck, findings, ticks, alerts,
                  stopped, served >>

\* start() is called: lines 27-30, up to the first await of check()
Start ==
  /\ startCalls < MaxStarts
  /\ startCalls' = startCalls + 1
  /\ isRunning' = TRUE
  /\ BeginCheck("start")
  /\ UNCHANGED << domains, blobs, tracing, trace, once, findings, intervalId, timers, timerCount, alerts,
                  stopped, served >>

\* start() without the return of single-run mode
StartResumeAlwaysArms(t) ==
  /\ ticks[t].origin = "start"
  /\ ticks[t].pc = "done"
  /\ ~ticks[t].resumed
  /\ ticks' = [ticks EXCEPT ![t].resumed = TRUE]
  /\ timerCount' = timerCount + 1
  /\ intervalId' = timerCount + 1
  /\ timers' = timers \cup {timerCount + 1}
  /\ UNCHANGED << domains, blobs, tracing, trace, once, isRunning, lastCheck, findings, alerts,
                  startCalls, stopped, served >>

\* start() after await this.check(): lines 32-43
StartResume(t) ==
  /\ ticks[t].origin = "start"
  /\ ticks[t].pc = "done"
  /\ ~ticks[t].resumed
  /\ ticks' = [ticks EXCEPT ![t].resumed = TRUE]
  /\ IF once
     THEN UNCHANGED << intervalId, timers, timerCount >>
     ELSE /\ timerCount' = timerCount + 1
          /\ intervalId' = timerCount + 1
          /\ timers' = timers \cup {timerCount + 1}
  /\ UNCHANGED << domains, blobs, tracing, trace, once, isRunning, lastCheck, findings, alerts, startCalls,
                  stopped, served >>

\* an armed timer expires: the setInterval callback calls check()
TimerFire(id) ==
  /\ id \in timers
  /\ BeginCheck("timer")
  /\ UNCHANGED << domains, blobs, tracing, trace, once, isRunning, findings, intervalId, timers, timerCount,
                  alerts, startCalls, stopped, served >>

\* clearInterval(this.intervalId) when this.intervalId is set
ClearInterval(id, armed) == IF id # 0 THEN armed \ {id} ELSE armed

\* stop() without the clearInterval call
StopKeepsTimer ==
  /\ stopped' = TRUE
  /\ isRunning' = FALSE
  /\ UNCHANGED << domains, blobs, tracing, trace, once, lastCheck, findings, intervalId, timers,
                  timerCount, ticks, alerts, startCalls, served >>

\* stop() is called
Stop ==
  /\ stopped' = TRUE
  /\ isRunning' = FALSE
  /\ timers' = ClearInterval(intervalId, timers)
  /\ UNCHANGED << domains, blobs, tracing, trace, once, lastCheck, findings, intervalId, timerCount, ticks,
                  alerts, startCalls, served >>

\* ------------------------------------------------------------------------
\* Specification
\* ------------------------------------------------------------------------

\* check() t resumes from the await it is suspended at, with some answer
Resume(t) ==
  \/ \E resp \in SearchResponses(Min(MaxServed - served, PerPage)) : SearchPassword(t, resp)
  \/ \E resp \in SearchResponses(Min(MaxServed - served, PerPage)) : SearchApiKey(t, resp)
  \/ \E ok \in BOOLEAN : AnalyzeCode(t, ok)
  \/ \E resp \in GistResponses(Min(MaxServed - served, PerPage)) : ListGists(t, resp)
  \/ AnalyzeGist(t)

Next ==
  \/ Start
  \/ Stop
  \/ \E id \in timers : TimerFire(id)
  \/ \E t \in DOMAIN ticks : StartResume(t)
  \/ \E t \in DOMAIN ticks : Resume(t)

Spec == Init /\ [][Next]_vars

\* ------------------------------------------------------------------------
\* analyzeContent on arbitrary items: a check() suspended at the analysis of one
\* candidate item, over every short content, display URL and watched domain list
\* ------------------------------------------------------------------------

\* length of the contents explored
MaxContent == 3

\* length of the display URLs explored
MaxUrl == 2

ContentAlphabet == {"a", "c", "b", "p", "k", "="}

UrlAlphabet == {"a", "c", "b"}

DomainLists == { << <<"a", "c">> >>, << <<"b">> >>, << <<"a", "c">>, <<"b">> >> }

\* a check() begun by start() that is about to analyse its single code item
CodeProbe(url, watched) ==
  [NewTick("start", watched) EXCEPT
     !.pc = "code", !.codeOk = TRUE, !.totalScanned = 1,
     !.codeResults = << [type |-> "code", repository |-> "r1", path |-> "f1",
                         url |-> url, contentUrl |-> "u1"] >>]

\* a check() begun by start() that is about to analyse its single gist item
GistProbe(url, content, watched) ==
  [NewTick("start", watched) EXCEPT
     !.pc = "gist", !.gistOk = "ok", !.totalScanned = 1,
     !.gists = << [type |-> "gist", id |-> "g1", filename |-> "n1",
                   url |-> url, content |-> content] >>]

InitAnalyze ==
  /\ domains \in DomainLists
  /\ blobs \in [{"u1"} -> SeqsUpTo(ContentAlphabet, MaxContent)]
  /\ \E url \in SeqsUpTo(UrlAlphabet, MaxUrl) :
       ticks \in { << CodeProbe(url, domains) >>,
                   << GistProbe(url, blobs["u1"], domains) >> }
  /\ once = TRUE
  /\ isRunning = TRUE
  /\ lastCheck = 1
  /\ findings = <<>>
  /\ intervalId = 0
  /\ timers = {}
  /\ timerCount = 0
  /\ alerts = <<>>
  /\ startCalls = 1
  /\ stopped = FALSE
  /\ served = 1
  /\ tracing = FALSE
  /\ trace = <<>>

NextAnalyze ==
  \/ \E t \in DOMAIN ticks : \E ok \in BOOLEAN : AnalyzeCode(t, ok)
  \/ \E t \in DOMAIN ticks : AnalyzeGist(t)

SpecAnalyze == InitAnalyze /\ [][NextAnalyze]_vars

\* ------------------------------------------------------------------------
\* One check() with its requests recorded: the check() that start() awaits, over
\* the watched domain lists and every answer of the platform
\* ------------------------------------------------------------------------

TracedDomainLists == DomainLists \cup { <<>>, << <<"b">>, <<"a", "c">> >> }

InitTrace ==
  /\ domains \in TracedDomainLists
  /\ blobs = Blobs
  /\ once \in OnceOptions
  /\ isRunning = FALSE
  /\ lastCheck = 0
  /\ findings = <<>>
  /\ intervalId = 0
  /\ timers = {}
  /\ timerCount = 0
  /\ ticks = <<>>
  /\ alerts = <<>>
  /\ startCalls = 0
  /\ stopped = FALSE
  /\ served = 0
  /\ tracing = TRUE
  /\ trace = <<>>

NextTrace ==
  \/ startCalls = 0 /\ Start
  \/ \E t \in DOMAIN ticks : StartResume(t)
  \/ \E t \in DOMAIN ticks : Resume(t)

SpecTrace == InitTrace /\ [][NextTrace]_vars

\* ------------------------------------------------------------------------
\* Properties
\* ------------------------------------------------------------------------

\* the findings a check() has pushed, in order
TickFindings(t) ==
  LET mine == SelectSeq(findings, LAMBDA f : f.tick = t)
  IN [k \in 1..Len(mine) |-> mine[k].finding]

\* the decision rule: a watched domain in the content or in the display URL, and
\* a credential in the content
DecisionRule(content, url, watched) ==
  /\ \/ scanForDomains(content, watched) # <<>>
     \/ \E k \in 1..Len(watched) : Contains(url, watched[k])
  /\ detectCredentials(content) # <<>>

\* the item a check() suspended in an analysis loop is about to analyse
CurrentItem(tick) ==
  IF tick.pc = "code" THEN tick.codeResults[tick.i] ELSE tick.gists[tick.i]

\* a step is the return of analyzeContent for the current item of check() t
AnalysisStep(t) ==
  /\ ticks[t].pc \in {"code", "gist"}
  /\ ticks'[t] # ticks[t]

\* the content the analysis step of check() t resolved
AnalysedContent(t) ==
  IF ticks[t].pc = "code"
  THEN ticks'[t].contents[Len(ticks'[t].contents)]
  ELSE CurrentItem(ticks[t]).content

\* C1: analyzeContent yields a Finding for an item if and only if the decision
\* rule holds of the item's content and display URL: a watched domain occurs in
\* the content or in the display URL, and the content holds a credential.
AnalyzeYieldsFindingIffRule ==
  [][\A t \in DOMAIN ticks :
       AnalysisStep(t) =>
         /\ Len(findings') - Len(findings) \in {0, 1}
         /\ (Len(findings') = Len(findings) + 1) <=>
              DecisionRule(AnalysedContent(t), CurrentItem(ticks[t]).url, domains)]_vars

\* C1 witness: findings through the content path and through the URL path, and
\* an item with a credential but no domain (or a domain but no credential) that
\* was analysed without a finding
AnalyzeWitnessFinding ==
  /\ Len(ticks) = 1 /\ ticks[1].pc \in {"gists", "done"} /\ ticks[1].i = 2
  /\ Len(findings) = 1
  /\ findings[1].finding.matchedDomains = <<>>
  /\ findings[1].finding.credentials # <<>>

\* ------------------------------------------------------------------------

\* what identifies the item of a finding, and of a candidate item
FindingKey(f) == [type |-> f.type, source |-> f.source, path |-> f.path, url |-> f.url]

ItemKey(item) ==
  [type |-> item.type,
   source |-> IF item.type = "code" THEN item.repository ELSE item.id,
   path |-> IF item.type = "code" THEN item.path ELSE item.filename,
   url |-> item.url]

Keys(fs) == [k \in 1..Len(fs) |-> FindingKey(fs[k])]

\* the indices, in order, of the items that satisfy the decision rule
RECURSIVE Matching(_, _, _)
Matching(items, contents, k) ==
  IF k > Len(items) \/ k > Len(contents) THEN <<>>
  ELSE (IF DecisionRule(contents[k], items[k].url, domains)
        THEN << ItemKey(items[k]) >> ELSE <<>>)
       \o Matching(items, contents, k + 1)

\* the code items analysed so far that satisfy the decision rule
MatchingCode(tick) == Matching(tick.codeResults, tick.contents, 1)

\* the gist items that satisfy the decision rule
MatchingGists(tick) ==
  Matching(tick.gists, [k \in 1..Len(tick.gists) |-> tick.gists[k].content], 1)

\* every connector call of a finished check() failed
AllCallsFailed(tick) == tick.pc = "done" /\ ~tick.codeOk /\ tick.gistOk = "fail"

\* C2: check() never raises to its caller, whatever search requests, gist
\* listings and content fetches fail: a check() in progress can always go on
\* with the answer that arrives, and none ends rejected; and a check() whose
\* every connector call failed ends with 0 items scanned and 0 findings, and
\* has appended no Finding.
CheckNeverRaises ==
  \A t \in DOMAIN ticks :
    /\ ticks[t].pc # "rejected"
    /\ InProgress(t) => ENABLED Resume(t)
    /\ AllCallsFailed(ticks[t]) =>
         /\ ticks[t].totalScanned = 0
         /\ ticks[t].threatsFound = 0
         /\ TickFindings(t) = <<>>

\* C2 witness: a check() has finished after every one of its calls failed
AllFailedCheckDone == \E t \in DOMAIN ticks : AllCallsFailed(ticks[t])

\* C3: a finished check() has run both connectors; when every code-search request
\* failed and the gist listing was answered, its Findings are exactly those of
\* the gist items that satisfy the decision rule, and when the gist listing
\* failed they are exactly those of the matching code items.
ConnectorFailureIsolated ==
  \A t \in DOMAIN ticks :
    ticks[t].pc = "done" =>
      /\ ticks[t].gistOk \in {"ok", "fail"}
      /\ (~ticks[t].codeOk /\ ticks[t].gistOk = "ok") =>
           Keys(TickFindings(t)) = MatchingGists(ticks[t])
      /\ ticks[t].gistOk = "fail" =>
           Keys(TickFindings(t)) = MatchingCode(ticks[t])

\* C3 witness: every code-search request of a finished check() failed, its gist
\* listing returned two items that satisfy the rule, and it has two Findings
GistFindingsDespiteSearchFailure ==
  \E t \in DOMAIN ticks :
    /\ ticks[t].pc = "done" /\ ~ticks[t].codeOk /\ ticks[t].gistOk = "ok"
    /\ Len(ticks[t].gists) = 2
    /\ Len(MatchingGists(ticks[t])) = 2
    /\ Len(TickFindings(t)) = 2

\* C4: after stop() has been called no execution of check() begins.  (Stated
\* for the executions a timer begins; the check() that a start() called after
\* stop() runs itself is the case of C8.)
NoTickBeginsAfterStop ==
  [][(stopped /\ startCalls' = startCalls) => Len(ticks') = Len(ticks)]_vars

\* C5: at most one execution of check() is in progress at any time.  (Stated
\* for a Monitor whose start() was called once, where every later check() is
\* begun by the timer.)
TicksNeverOverlap ==
  startCalls <= 1 => Cardinality({t \in DOMAIN ticks : InProgress(t)}) <= 1

\* C6: with once = true every start() runs exactly one check(), returns only
\* when that check() has finished, and arms no timer, so that every check() is
\* the one of a start() call.
SingleRunArmsNoTimer ==
  once =>
    /\ timers = {} /\ intervalId = 0 /\ timerCount = 0
    /\ Len(ticks) = startCalls
    /\ \A t \in DOMAIN ticks :
         /\ ticks[t].origin = "start"
         /\ ticks[t].resumed => ticks[t].pc = "done"

\* C6 witness: a start() in single-run mode has returned
SingleRunReturned ==
  once /\ \E t \in DOMAIN ticks : ticks[t].origin = "start" /\ ticks[t].resumed

\* the timer-driven executions of check()
TimerTicks == {t \in DOMAIN ticks : ticks[t].origin = "timer"}

\* C7: with once = false, start() begins a check() in the step of the call, with
\* no timer armed by that step; start() arms its timer when that check() has
\* finished, the timer stays armed for as long as stop() has not been called,
\* and a check() that is not the first one of a start() begins by the expiry of
\* an armed timer.
ContinuousRunTicks ==
  [][~once =>
       /\ startCalls' = startCalls + 1 =>
            /\ Len(ticks') = Len(ticks) + 1
            /\ ticks'[Len(ticks')].origin = "start"
            /\ ticks'[Len(ticks')].pc \notin {"done", "rejected"}
            /\ timers' = timers
       /\ timers' # timers /\ ~stopped' =>
            \E t \in DOMAIN ticks :
              /\ ticks[t].origin = "start" /\ ticks[t].pc = "done"
              /\ ~ticks[t].resumed /\ ticks'[t].resumed
              /\ timers' = timers \cup {intervalId'} /\ intervalId' \notin timers
       /\ ~stopped' =>
            \A t \in DOMAIN ticks' :
              (ticks'[t].origin = "start" /\ ticks'[t].resumed) => timers' # {}
       /\ (Len(ticks') = Len(ticks) + 1 /\ startCalls' = startCalls) =>
            /\ ticks'[Len(ticks')].origin = "timer"
            /\ timers # {}]_vars

\* C7 witness: in continuous mode, not stopped, a timer-driven check() has begun
TimerTickBegun == ~once /\ ~stopped /\ TimerTicks # {}

\* C8: once stop() has been called, isRunning never becomes true again and no
\* check() is executed.
StoppedIsTerminal ==
  [][stopped => (~isRunning' /\ Len(ticks') = Len(ticks))]_vars

\* C9: stop() raises nothing and leaves isRunning = false and the timer of
\* intervalId cancelled, also on a Monitor that was never started; a stop() in a
\* state a stop() has left changes nothing.
StopIsIdempotent ==
  [][Stop =>
       /\ ~isRunning' /\ stopped' /\ intervalId' \notin timers'
       /\ (stopped /\ ~isRunning /\ intervalId \notin timers) => UNCHANGED vars]_vars

\* C9 witness: stop() was called on a Monitor that was never started
StoppedNeverStarted == stopped /\ startCalls = 0 /\ ~isRunning /\ timers = {}

\* C10: every Finding in the accumulated findings has a non-empty matchedDomains
\* and a non-empty credentials list.
FindingsNameDomainAndCredential ==
  \A k \in 1..Len(findings) :
    /\ findings[k].finding.matchedDomains # <<>>
    /\ findings[k].finding.credentials # <<>>

\* ------------------------------------------------------------------------
\* The connectors, on the recorded requests of a check()
\* ------------------------------------------------------------------------

\* the answered search requests of check() t, in order
SearchCalls(t) ==
  SelectSeq(trace, LAMBDA e : e.tick = t /\ e.request.path = "/search/code")

\* the answers check() t got to a request
AnswersTo(t, request) == SelectSeq(SearchCalls(t), LAMBDA e : e.request = request)

\* the candidate items of the leading items of an answer that have a repository
RECURSIVE Readable(_)
Readable(items) ==
  IF items = <<>> THEN <<>>
  ELSE IF Head(items).repo = Undefined THEN <<>>
  ELSE << [type |-> "code", repository |-> Head(items).repo, path |-> Head(items).path,
           url |-> Head(items).html_url, contentUrl |-> Head(items).url] >>
       \o Readable(Tail(items))

\* a request succeeds: it is answered and every item of the answer can be read
ReadOk(resp) == resp.ok /\ Len(Readable(resp.items)) = Len(resp.items)

\* both requests of domain k of check() t succeeded
DomainSucceeded(t, k) ==
  LET pw == AnswersTo(t, PasswordQuery(domains[k]))
      api == AnswersTo(t, ApiKeyQuery(domains[k]))
  IN /\ Len(pw) = 1 /\ Len(api) = 1
     /\ ReadOk(pw[1].resp) /\ ReadOk(api[1].resp)

\* the items of both answers of the domains from k on whose requests succeeded
RECURSIVE SucceededItems(_, _)
SucceededItems(t, k) ==
  IF k > Len(domains) THEN <<>>
  ELSE (IF DomainSucceeded(t, k)
        THEN Readable(AnswersTo(t, PasswordQuery(domains[k]))[1].resp.items)
             \o Readable(AnswersTo(t, ApiKeyQuery(domains[k]))[1].resp.items)
        ELSE <<>>)
       \o SucceededItems(t, k + 1)

\* a occurs in b, in order
RECURSIVE IsSubsequence(_, _)
IsSubsequence(a, b) ==
  IF a = <<>> THEN TRUE
  ELSE IF b = <<>> THEN FALSE
  ELSE IF Head(a) = Head(b) THEN IsSubsequence(Tail(a), Tail(b))
  ELSE IsSubsequence(a, Tail(b))

\* scanCodeSearch of the check() has returned
SearchReturned(tick) == tick.pc \notin {"password", "api_key"}

\* C11: A failing query of one domain does not abort the queries of the remaining
\* domains: whichever queries fail, every watched domain is queried, the sequence
\* scanCodeSearch returns contains, in domain order, all items of both queries of
\* every domain whose queries succeed, and scanCodeSearch returns normally (check()
\* counts its results).
SearchFailureIsolated ==
  \A t \in DOMAIN ticks :
    SearchReturned(ticks[t]) =>
      /\ \A k \in 1..Len(domains) : Len(AnswersTo(t, PasswordQuery(domains[k]))) = 1
      /\ IsSubsequence(SucceededItems(t, 1), ticks[t].codeResults)
      /\ ticks[t].totalScanned >= Len(ticks[t].codeResults)
      /\ ticks[t].pc # "rejected"

\* C11 witness: the password query of the first domain failed, and both queries
\* of the second domain succeeded and returned items
SecondDomainSearchedAfterFailure ==
  /\ Len(domains) = 2 /\ Len(ticks) = 1
  /\ SearchReturned(ticks[1])
  /\ AnswersTo(1, PasswordQuery(domains[1])) # <<>>
  /\ ~AnswersTo(1, PasswordQuery(domains[1]))[1].resp.ok
  /\ DomainSucceeded(1, 2)
  /\ Len(SucceededItems(1, 1)) = 2
  /\ ticks[1].codeResults = SucceededItems(1, 1)

\* ------------------------------------------------------------------------

\* the answers check() t got to its gist listing
GistCalls(t) == SelectSeq(trace, LAMBDA e : e.tick = t /\ e.request = GistListing)

\* a step of scanGists fails: the listing request, or the expansion of the files
\* of some gist of the answer
GistStepFails(resp) ==
  \/ ~resp.ok
  \/ \E k \in 1..Len(resp.data) : ~resp.data[k].hasFiles

\* the findings of check() t that come from gists
GistFindings(t) == SelectSeq(TickFindings(t), LAMBDA f : f.type = "gist")

\* C12: Whenever a step of scanGists fails (the listing request, or the expansion
\* of the files of some returned gist), scanGists returns the empty sequence and
\* the gists contribute no scanned item and no Finding to the tick.
GistFailureYieldsNothing ==
  \A t \in DOMAIN ticks :
    \A k \in 1..Len(GistCalls(t)) :
      GistStepFails(GistCalls(t)[k].resp) =>
        /\ ticks[t].gists = <<>>
        /\ ticks[t].totalScanned = Len(ticks[t].codeResults)
        /\ GistFindings(t) = <<>>

\* ------------------------------------------------------------------------

\* C13: An error while one item is analysed yields no Finding for that item and
\* never aborts the tick: in a tick that has ended every code item and every gist
\* item was analysed, also after items that failed, and the tick's Findings are
\* exactly those of the items that did not fail and satisfy the decision rule.
ItemFailureIsolated ==
  \A t \in DOMAIN ticks :
    ticks[t].pc = "done" =>
      /\ Len(ticks[t].contents) = Len(ticks[t].codeResults)
      /\ ticks[t].gistOk # "pending"
      /\ ticks[t].gists # <<>> => ticks[t].i = Len(ticks[t].gists) + 1
      /\ Keys(TickFindings(t)) = MatchingCode(ticks[t]) \o MatchingGists(ticks[t])

\* C13 witness: the fetch of the first of two code items failed, the second item
\* was analysed and gave the tick's only Finding
FindingAfterFailedItem ==
  \E t \in DOMAIN ticks :
    /\ ticks[t].pc = "done"
    /\ Len(ticks[t].codeResults) = 2
    /\ ticks[t].contents[1] = <<>>
    /\ ticks[t].contents[2] # <<>>
    /\ Len(TickFindings(t)) = 1

\* ------------------------------------------------------------------------

\* the requests of check() t, in the order of their answers
SearchRequests(t) == [k \in 1..Len(SearchCalls(t)) |-> SearchCalls(t)[k].request]

\* the search request for a domain and a word, with the page size
SearchRequest(domain, word) ==
  [path |-> "/search/code", q |-> domain \o <<" ">> \o word, per_page |-> PerPage]

PasswordWord == <<"p", "a", "s", "s", "w", "o", "r", "d">>

ApiKeyWord == <<"a", "p", "i", "_", "k", "e", "y">>

\* the password and the api_key request of every domain from k on
RECURSIVE BothQueries(_)
BothQueries(k) ==
  IF k > Len(domains) THEN <<>>
  ELSE << SearchRequest(domains[k], PasswordWord), SearchRequest(domains[k], ApiKeyWord) >>
       \o BothQueries(k + 1)

\* the password request of every domain from k on, and the api_key request of
\* the domains whose password request succeeded
RECURSIVE QueriesGiven(_, _)
QueriesGiven(t, k) ==
  IF k > Len(domains) THEN <<>>
  ELSE LET pw == AnswersTo(t, SearchRequest(domains[k], PasswordWord))
       IN << SearchRequest(domains[k], PasswordWord) >>
          \o (IF pw # <<>> /\ ReadOk(pw[1].resp)
              THEN << SearchRequest(domains[k], ApiKeyWord) >> ELSE <<>>)
          \o QueriesGiven(t, k + 1)

\* the items that can be read of the answers of calls from k on
RECURSIVE AllPushed(_, _)
AllPushed(calls, k) ==
  IF k > Len(calls) THEN <<>>
  ELSE (IF calls[k].resp.ok THEN Readable(calls[k].resp.items) ELSE <<>>)
       \o AllPushed(calls, k + 1)

\* C14 as claimed: In every execution of scanCodeSearch exactly two requests are
\* issued for each watched domain, the password request and then the api_key
\* request, each with page size 30, and the items of both answers are returned.
TwoQueriesPerDomain ==
  \A t \in DOMAIN ticks :
    SearchReturned(ticks[t]) =>
      /\ SearchRequests(t) = BothQueries(1)
      /\ \A k \in 1..Len(SearchRequests(t)) : SearchRequests(t)[k].per_page = PerPage
      /\ ticks[t].codeResults = AllPushed(SearchCalls(t), 1)

\* C14 amended: For each watched domain scanCodeSearch issues the password
\* request first, and the api_key request of the domain after it exactly when the
\* password request succeeded; every request has page size 30, and the items
\* read from the answers are returned in the order of the requests.
SecondQueryAfterFirstSucceeds ==
  \A t \in DOMAIN ticks :
    SearchReturned(ticks[t]) =>
      /\ SearchRequests(t) = QueriesGiven(t, 1)
      /\ \A k \in 1..Len(SearchRequests(t)) : SearchRequests(t)[k].per_page = PerPage
      /\ ticks[t].codeResults = AllPushed(SearchCalls(t), 1)

\* C14 witness: two watched domains; the password request of the first failed,
\* so three requests were issued, and both answers of the second gave an item
ThreeQueriesForTwoDomains ==
  /\ Len(domains) = 2 /\ Len(ticks) = 1
  /\ SearchReturned(ticks[1])
  /\ Len(SearchRequests(1)) = 3
  /\ ~SearchCalls(1)[1].resp.ok
  /\ Len(ticks[1].codeResults) = 2
  /\ Len(AllPushed(SearchCalls(1), 3)) = 1

\* ------------------------------------------------------------------------

\* C15: Alerts are not batched: at every point between the analyses of two items
\* every Finding appended to the accumulated findings has been alerted exactly
\* once, and the alerts are in the order of the appends.
AlertedOnceInAppendOrder ==
  alerts = [k \in 1..Len(findings) |-> findings[k].finding]

\* C15 witness: a check() suspended before its next item whose Finding has been
\* alerted already, after a Finding of another check()
AlertedBeforeNextItem ==
  \E t \in DOMAIN ticks :
    /\ ticks[t].pc \in {"code", "gist"}
    /\ Len(alerts) = 2
    /\ findings[2].tick = t
    /\ findings[1].tick # t

\* ------------------------------------------------------------------------

\* a is a prefix of b
IsPrefix(a, b) == Len(a) <= Len(b) /\ SubSeq(b, 1, Len(a)) = a

\* the number of gist items check() has analysed
AnalysedGists(tick) ==
  IF tick.pc = "gist" THEN tick.i - 1
  ELSE IF tick.pc = "done" THEN Len(tick.gists) ELSE 0

\* the gist items analysed so far that satisfy the decision rule
MatchingGistsSoFar(tick) ==
  Matching(SubSeq(tick.gists, 1, AnalysedGists(tick)),
           [k \in 1..AnalysedGists(tick) |-> tick.gists[k].content], 1)

\* the Findings of check() t are in the order its items were produced, those of
\* the code search before those of the gists
InDiscoveryOrder(t) ==
  Keys(TickFindings(t)) = MatchingCode(ticks[t]) \o MatchingGistsSoFar(ticks[t])

\* C16: The accumulated findings are append-only and in discovery order: over
\* start, stop and ticks, overlapping ticks included, the list before a step is a
\* prefix of the list after it, and within one tick the code-search Findings come
\* before the gist Findings, in the order their items were produced.
FindingsAppendOnly ==
  /\ [][IsPrefix(findings, findings')]_vars
  /\ [](\A t \in DOMAIN ticks : InDiscoveryOrder(t))

\* C16 witness: a tick pushed a code Finding and then a gist Finding while an
\* earlier tick was in progress
CodeFindingBeforeGistFinding ==
  /\ Len(findings) >= 2
  /\ findings[1].tick = findings[2].tick
  /\ findings[1].tick > 1 /\ InProgress(1)
  /\ findings[1].finding.type = "code"
  /\ findings[2].finding.type = "gist"

\* ------------------------------------------------------------------------

\* C17: The counters a tick reports: itemsScanned is the number of code items
\* plus the number of gist items its connectors returned, and findingsCount is
\* the number of Findings this tick appended, also when ticks overlap.
CountersMatch ==
  \A t \in DOMAIN ticks :
    /\ ticks[t].threatsFound = Len(TickFindings(t))
    /\ ticks[t].pc = "done" =>
         ticks[t].totalScanned = Len(ticks[t].codeResults) + Len(ticks[t].gists)

\* C17 witness: a tick that has ended with two Findings of two scanned items,
\* between which another tick pushed a Finding
CountedAcrossOverlap ==
  \E t \in DOMAIN ticks :
    /\ ticks[t].pc = "done"
    /\ ticks[t].threatsFound = 2
    /\ ticks[t].totalScanned = 2
    /\ Len(findings) = 3
    /\ findings[1].tick = t /\ findings[2].tick # t /\ findings[3].tick = t

\* ------------------------------------------------------------------------

\* a step of scanCodeSearch or scanGists of check() t
ConnectorStep(t) ==
  /\ ticks[t].pc \in {"password", "api_key", "gists"}
  /\ ticks'[t] # ticks[t]

\* the step in which start() goes on after its check() (printSummary in
\* single-run mode)
SummaryStep(t) == ~ticks[t].resumed /\ ticks'[t].resumed

\* a step of stop()
StopStep == stopped' /\ ticks' = ticks /\ startCalls' = startCalls

\* C18: scanCodeSearch, scanGists, analyzeContent, alert and printSummary leave
\* isRunning, lastCheck, the accumulated findings and the watched domains as they
\* are (the push after analyzeContent is check()'s); the run state changes only in
\* start, stop and at the beginning of a tick; the domains never change.
HelpersLeaveStateAlone ==
  [][/\ domains' = domains
     /\ \A t \in DOMAIN ticks :
          /\ ConnectorStep(t) => UNCHANGED << isRunning, lastCheck, findings >>
          /\ AnalysisStep(t) =>
               /\ UNCHANGED << isRunning, lastCheck >>
               /\ IsPrefix(findings, findings')
               /\ Len(findings') - Len(findings) = Len(alerts') - Len(alerts)
          /\ SummaryStep(t) => UNCHANGED << isRunning, lastCheck, findings >>
     /\ isRunning' # isRunning => startCalls' # startCalls \/ StopStep
     /\ lastCheck' # lastCheck => Len(ticks') = Len(ticks) + 1]_vars

\* C18 witness: start() has printed the summary of a single run whose connectors
\* returned items and whose analysis gave Findings
SummaryAfterFindings ==
  /\ once /\ isRunning /\ lastCheck = 1 /\ Len(ticks) = 1
  /\ ticks[1].resumed
  /\ ticks[1].codeResults # <<>> /\ ticks[1].gists # <<>>
  /\ Len(findings) >= 2

\* ------------------------------------------------------------------------

\* C19: At most one recurring timer is armed at any time, and after stop() has
\* returned no timer armed by an earlier start() remains armed, for every
\* sequence of start() and stop() calls, start() twice without stop() included.
AtMostOneTimerArmed ==
  [][/\ Cardinality(timers') <= 1
     /\ StopStep => timers' = {}]_vars

\* ------------------------------------------------------------------------

\* the number of times x occurs in seq
Occurrences(seq, x) == Cardinality({k \in DOMAIN seq : seq[k] = x})

\* the keys of the items check() has analysed so far
AnalysedKeys(tick) ==
  [k \in 1..Len(tick.contents) |-> ItemKey(tick.codeResults[k])]
  \o [k \in 1..AnalysedGists(tick) |-> ItemKey(tick.gists[k])]

\* C20: An item contributes at most one Finding per tick, so that findingsCount
\* never exceeds itemsScanned; an item that both queries return is a candidate
\* once per occurrence and is analysed once per occurrence, not deduplicated.
OneFindingPerOccurrence ==
  \A t \in DOMAIN ticks :
    LET tick == ticks[t]
        pushed == AllPushed(SearchCalls(t), 1)
    IN /\ tick.threatsFound <= tick.totalScanned
       /\ \A k \in 1..Len(TickFindings(t)) :
            Occurrences(Keys(TickFindings(t)), Keys(TickFindings(t))[k])
              <= Occurrences(AnalysedKeys(tick), Keys(TickFindings(t))[k])
       /\ SearchReturned(tick) =>
            \A k \in 1..Len(pushed) :
              Occurrences(tick.codeResults, pushed[k]) = Occurrences(pushed, pushed[k])
       /\ tick.pc \in {"gists", "gist", "done"} =>
            Len(tick.contents) = Len(tick.codeResults)

\* C20 witness: both queries of a domain returned the same item; it is twice in
\* the results, was analysed twice and gave two Findings
SameItemAnalysedTwice ==
  /\ Len(ticks) = 1 /\ ticks[1].pc = "done"
  /\ Len(SearchCalls(1)) >= 2
  /\ SearchCalls(1)[1].resp.ok /\ SearchCalls(1)[2].resp.ok
  /\ Len(SearchCalls(1)[1].resp.items) = 1
  /\ SearchCalls(1)[1].resp.items = SearchCalls(1)[2].resp.items
  /\ Len(ticks[1].codeResults) = 2
  /\ ticks[1].codeResults[1] = ticks[1].codeResults[2]
  /\ Len(ticks[1].contents) = 2
  /\ ticks[1].threatsFound = 2

====
